---- MODULE Spec2Model ----
(***************************************************************************)
(* Model of src/analysis/statistical_analysis.py (class                    *)
(* StatisticalAnalysis): the yearly / periodic aggregation loops over the  *)
(* flood wave graph.                                                       *)
(*                                                                         *)
(* Python strings are sequences of character codes (ASCII), so that        *)
(* f-string formatting, the substring test `in` and the lexicographic      *)
(* comparisons `<`, `<=` are computed as Python computes them.             *)
(***************************************************************************)
EXTENDS Integers, Sequences, FiniteSets, TLC

VARIABLES
    pc,                \* position in the running operation
    err,               \* the exception that ended the operation, "" if none
    result,            \* <<>> until the operation returns, then <<value>>
    world,             \* which data set the collaborators read
    gauges, length, period,                        \* the inputs
    i, year, start_date, end_date,                 \* loop variables
    branches, cleaned_branches, idx,               \* get_flood_waves_yearly
    mean_velocities,                               \* yearly_mean_moving_average
    years, components_num, low, high,              \* get_statistics
    mins, maxs, means, medians, stds,
    final_matrix, columns,                         \* low_high_by_gauge_yearly
    indices, ratios,                               \* red_ratio
    vertex_pairs, pair, dfs, files, sheets         \* get_slopes_by_vertex_pairs

ctlVars == <<pc, err, result>>
inVars == <<world, gauges, length, period>>
loopVars == <<i, year, start_date, end_date>>
fwVars == <<branches, cleaned_branches, idx>>
colVars == <<years, components_num, low, high>>
statVars == <<mins, maxs, means, medians, stds>>
lhVars == <<final_matrix, columns>>
rrVars == <<indices, ratios>>
slVars == <<vertex_pairs, pair, dfs, files, sheets>>

vars == <<ctlVars, inVars, loopVars, fwVars, mean_velocities, colVars,
          statVars, lhVars, rrVars, slVars>>

\* the variables an operation does not use keep these values
NoInputs == world = 0 /\ gauges = <<>> /\ length = 0 /\ period = 0
NoLoop == i = 0 /\ year = 0 /\ start_date = <<>> /\ end_date = <<>>
NoFw == branches = <<>> /\ cleaned_branches = <<>> /\ idx = 0
NoCols == years = <<>> /\ components_num = <<>> /\ low = <<>> /\ high = <<>>
NoStats == mins = <<>> /\ maxs = <<>> /\ means = <<>> /\ medians = <<>> /\ stds = <<>>
NoLh == final_matrix = <<>> /\ columns = <<>>
NoRr == indices = <<>> /\ ratios = <<>>
NoSl == vertex_pairs = <<>> /\ pair = 0 /\ dfs = <<>> /\ files = <<>> /\ sheets = <<>>

-----------------------------------------------------------------------------
(* Program constants                                                       *)

\* first year of the dataset: range(1876, 2020), np.arange(1876, 2020, ...)
FirstYear == 1876
\* exclusive upper end of the year ranges
EndYear == 2020
\* last year of the dataset: the literal of `year == 2019`, `> 2019`
LastYear == 2019
\* the shape of the preallocated grid: np.zeros((144, 28))
GridRows == 144
GridCols == 28

-----------------------------------------------------------------------------
(* Bounds of the model                                                     *)

\* most branches the branch decomposition returns
MaxBranches == 2
\* most nodes of one branch
MaxBranchLen == 2
\* the data sets of the collaborators are numbered 0..MaxWorld
MaxWorld == 3
\* the window lengths of the moving average are 0..MaxLength, and the two
\* longest ones the dataset allows
MaxLength == 2
\* the gauge lists are <<1, ..., n>> for n up to MaxGauges
MaxGauges == 2
\* the period lengths are 1..MaxPeriod, and a few longer ones
MaxPeriod == 2
\* most vertex pairs of vertex_pairs.json
MaxPairs == 1
\* most dates recorded for one vertex pair
MaxDates == 2

-----------------------------------------------------------------------------
(* Python strings                                                          *)

Dash == 45
Underscore == 95
Zero == 48

\* str(n) / f'{n}' for an integer n >= 0: its decimal digits
RECURSIVE Str(_)
Str(n) == IF n < 10 THEN <<Zero + n>> ELSE Str(n \div 10) \o <<Zero + (n % 10)>>

\* the literal tails of the f-strings
Jan01 == <<Dash, Zero, Zero + 1, Dash, Zero, Zero + 1>>
Dec31 == <<Dash, Zero + 1, Zero + 2, Dash, Zero + 3, Zero + 1>>
Feb01 == <<Dash, Zero, Zero + 2, Dash, Zero, Zero + 1>>
Nov30 == <<Dash, Zero + 1, Zero + 1, Dash, Zero + 3, Zero>>

\* two-digit field of an ISO date
Pad2(n) == IF n < 10 THEN <<Zero>> \o Str(n) ELSE Str(n)

\* the ISO date string YYYY-MM-DD of the stored data
IsoDate(y, m, d) == Str(y) \o <<Dash>> \o Pad2(m) \o <<Dash>> \o Pad2(d)

\* Python `a in b` for strings: a is a contiguous substring of b
Contains(a, b) ==
    \E k \in 0..(Len(b) - Len(a)) : SubSeq(b, k + 1, k + Len(a)) = a

\* Python `a < b` for strings: lexicographic order of the code points
RECURSIVE StrLess(_, _)
StrLess(a, b) ==
    IF b = <<>> THEN FALSE
    ELSE IF a = <<>> THEN TRUE
    ELSE IF Head(a) # Head(b) THEN Head(a) < Head(b)
    ELSE StrLess(Tail(a), Tail(b))

StrLessEq(a, b) == a = b \/ StrLess(a, b)

SeqsUpTo(S, n) == UNION {[1..k -> S] : k \in 0..n}


-----------------------------------------------------------------------------
(* numpy reductions.  A float is modelled by the rational it stands for, a   *)
(* reduced fraction <<numerator, denominator>>; nan is <<0, 0>>.             *)

NaN == <<0, 0>>

RECURSIVE Gcd(_, _)
Gcd(a, b) == IF b = 0 THEN a ELSE Gcd(b, a % b)

\* the reduced fraction n / d, for n >= 0 and d > 0
Frac(n, d) == LET g == Gcd(n, d) IN <<n \div g, d \div g>>

\* the sum of s[a..b], by halving the range
RECURSIVE SumRange(_, _, _)
SumRange(s, a, b) ==
    IF a > b THEN 0
    ELSE IF a = b THEN s[a]
    ELSE LET m == (a + b) \div 2 IN SumRange(s, a, m) + SumRange(s, m + 1, b)

Sum(s) == SumRange(s, 1, Len(s))

SumSq(s) == Sum([k \in 1..Len(s) |-> s[k] * s[k]])

RECURSIVE Insert(_, _)
Insert(x, s) ==
    IF s = <<>> THEN <<x>>
    ELSE IF x <= Head(s) THEN <<x>> \o s
    ELSE <<Head(s)>> \o Insert(x, Tail(s))

RECURSIVE Sorted(_)
Sorted(s) == IF s = <<>> THEN <<>> ELSE Insert(Head(s), Sorted(Tail(s)))

\* np.min, np.max of a non-empty sequence (an empty one raises ValueError)
Min(s) == CHOOSE x \in {s[k] : k \in 1..Len(s)} : \A k \in 1..Len(s) : x <= s[k]
Max(s) == CHOOSE x \in {s[k] : k \in 1..Len(s)} : \A k \in 1..Len(s) : x >= s[k]

\* np.mean: nan for an empty sequence
Mean(s) == IF s = <<>> THEN NaN ELSE Frac(Sum(s), Len(s))

\* np.median: the middle of the sorted sequence, or the mean of the two
\* middle elements
Median(s) ==
    IF s = <<>> THEN NaN
    ELSE LET t == Sorted(s)
             n == Len(s)
         IN IF n % 2 = 1 THEN Frac(t[(n + 1) \div 2], 1)
            ELSE Frac(t[n \div 2] + t[n \div 2 + 1], 2)

\* np.std: the population standard deviation, kept as the fraction it is
\* the square root of
Std(s) ==
    IF s = <<>> THEN [sqrt |-> NaN]
    ELSE [sqrt |-> Frac(Len(s) * SumSq(s) - Sum(s) * Sum(s), Len(s) * Len(s))]

\* list.count(x) that counts every element
CountAll(s, x) == Len(s)

\* list.count(x)
Count(s, x) == Cardinality({k \in 1..Len(s) : s[k] = x})

-----------------------------------------------------------------------------
(* The collaborators: FloodWaveHandler, GraphAnalysis, AnalysisHandler      *)

\* the year of a date string that starts with four digits
ParseYear(d) ==
    1000 * (d[1] - Zero) + 100 * (d[2] - Zero) + 10 * (d[3] - Zero) + (d[4] - Zero)

\* the velocities of the edges of year y in data set w: none at all in data
\* set 0, some in every year in the odd data sets, some in few years only in
\* the even ones
YearVelocities(w, y) ==
    IF w = 0 THEN <<>>
    ELSE IF w % 2 = 1 THEN <<1 + (y % (w + 1)), w + 2>>
    ELSE IF y % (2 * w) = 0 THEN <<3, 1 + (y % 5), 8>>
    ELSE <<>>

ColorsA == <<"yellow", "red", "yellow">>
ColorsB == <<"red", "green", "green", "yellow", "red", "green", "yellow">>

\* the colors of the nodes of gauge g in year y in data set w
YearColors(w, g, y) ==
    IF w = 0 THEN <<>>
    ELSE LET r == (y + g) % (w + 1)
         IN IF r = 0 THEN ColorsA ELSE IF r = 1 THEN ColorsB ELSE <<>>

\* the velocities of the years y1..y2 in order, by halving the range
RECURSIVE PoolVelocities(_, _, _)
PoolVelocities(w, y1, y2) ==
    IF y1 > y2 THEN <<>>
    ELSE IF y1 = y2 THEN YearVelocities(w, y1)
    ELSE LET m == (y1 + y2) \div 2
         IN PoolVelocities(w, y1, m) \o PoolVelocities(w, m + 1, y2)

\* the colors of gauge g in the years y1..y2 in order
RECURSIVE PoolColors(_, _, _, _)
PoolColors(w, g, y1, y2) ==
    IF y1 > y2 THEN <<>>
    ELSE IF y1 = y2 THEN YearColors(w, g, y1)
    ELSE LET m == (y1 + y2) \div 2
         IN PoolColors(w, g, y1, m) \o PoolColors(w, g, m + 1, y2)

\* the number of years of y1..y2 with an edge
YearsWithEdges(w, y1, y2) == Cardinality({y \in y1..y2 : YearVelocities(w, y) # <<>>})

\* FloodWaveHandler.create_directed_graph(start_date, end_date, ...): what
\* the aggregation reads of the graph of a window of whole years
create_directed_graph(w, s, e) ==
    [velocities |-> PoolVelocities(w, ParseYear(s), ParseYear(e)),
     components |-> YearsWithEdges(w, ParseYear(s), ParseYear(e))]

\* GraphAnalysis.calculate_all_velocities(river_kms, joined_graph)
calculate_all_velocities(graph) == graph.velocities

\* len(list(nx.weakly_connected_components(graph)))
weakly_connected_components(graph) == graph.components

\* AnalysisHandler.get_node_colors_in_given_period: a dict from str(gauge)
\* to the colors of the gauge's nodes in the window
get_node_colors_in_given_period(w, gs, s, e) ==
    [key \in {Str(gs[k]) : k \in 1..Len(gs)} |->
        LET g == CHOOSE x \in {gs[k] : k \in 1..Len(gs)} : Str(x) = key
        IN PoolColors(w, g, ParseYear(s), ParseYear(e))]

Worlds == 0..MaxWorld

\* the gauge list <<1, ..., n>>
GaugeList(n) == [k \in 1..n |-> k]

-----------------------------------------------------------------------------
(* yearly_mean_moving_average                                              *)

Lengths == (0..MaxLength) \cup {EndYear - FirstYear - 1, EndYear - FirstYear}

\* the first value of range(1876 + length, 2020)
MmaFirst(len) == FirstYear + len

\* MmaWindowStart without the shift by the window length
MmaWindowStartUnshifted(y, len) == Str(y) \o Jan01

\* the left end of the window that ends in year y
MmaWindowStart(y, len) == Str(y - len) \o Jan01

InitMMA ==
    /\ pc = "mma_loop" /\ err = "" /\ result = <<>>
    /\ world \in Worlds /\ length \in Lengths
    /\ gauges = <<>> /\ period = 0
    /\ i = MmaFirst(length)
    /\ year = 0 /\ start_date = <<>> /\ end_date = <<>>
    /\ mean_velocities = <<>>
    /\ NoFw /\ NoCols /\ NoStats /\ NoLh /\ NoRr /\ NoSl

\* one iteration of `for i in range(1876 + length, 2020)`
MmaStep ==
    /\ pc = "mma_loop"
    /\ i < EndYear
    /\ LET s == MmaWindowStart(i, length)
           e == Str(i) \o Dec31
           graph == create_directed_graph(world, s, e)
           velocities == calculate_all_velocities(graph)
       IN /\ start_date' = s
          /\ end_date' = e
          /\ mean_velocities' = Append(mean_velocities, Mean(velocities))
    /\ i' = i + 1
    /\ UNCHANGED <<ctlVars, inVars, year>>
    /\ UNCHANGED <<fwVars, colVars, statVars, lhVars, rrVars, slVars>>

\* return mean_velocities
MmaReturn ==
    /\ pc = "mma_loop"
    /\ i >= EndYear
    /\ pc' = "mma_done"
    /\ result' = <<mean_velocities>>
    /\ UNCHANGED <<err, inVars, loopVars, mean_velocities>>
    /\ UNCHANGED <<fwVars, colVars, statVars, lhVars, rrVars, slVars>>

NextMMA == MmaStep \/ MmaReturn

SpecMMA == InitMMA /\ [][NextMMA]_vars

-----------------------------------------------------------------------------
(* get_statistics                                                          *)

GaugeLists == {GaugeList(n) : n \in 0..MaxGauges}

\* node_colors: the colors of all gauges of the list, in the order of the list
RECURSIVE ConcatColors(_, _, _)
ConcatColors(gs, gauges_dct, k) ==
    IF k > Len(gs) THEN <<>>
    ELSE gauges_dct[Str(gs[k])] \o ConcatColors(gs, gauges_dct, k + 1)

\* pd.DataFrame(final_table)
StatisticsTable ==
    ("Datum (ev)" :> years) @@ ("Arhullam (db)" :> components_num) @@
    ("Kisviz (db)" :> low) @@ ("Nagyviz (db)" :> high) @@
    ("Min. sebesseg (km/h)" :> mins) @@ ("Max. sebesseg (km/h)" :> maxs) @@
    ("Atlagsebesseg (km/h)" :> means) @@ ("Median sebesseg (km/h)" :> medians) @@
    ("Sebessegek szorasa" :> stds)

InitGS ==
    /\ pc = "gs_loop" /\ err = "" /\ result = <<>>
    /\ world \in Worlds /\ gauges \in GaugeLists
    /\ length = 0 /\ period = 0
    /\ i = FirstYear
    /\ year = 0 /\ start_date = <<>> /\ end_date = <<>>
    /\ mean_velocities = <<>>
    /\ NoFw /\ NoCols /\ NoStats /\ NoLh /\ NoRr /\ NoSl

\* one iteration of `for i in range(1876, 2020)`; np.min of no velocities
\* raises ValueError
GsStep ==
    /\ pc = "gs_loop"
    /\ i < EndYear
    /\ LET s == Str(i) \o Jan01
           e == Str(i) \o Dec31
           graph == create_directed_graph(world, s, e)
           gauges_dct == get_node_colors_in_given_period(world, gauges, s, e)
           node_colors == ConcatColors(gauges, gauges_dct, 1)
           velocities == calculate_all_velocities(graph)
       IN /\ start_date' = s
          /\ end_date' = e
          /\ years' = Append(years, i)
          /\ low' = Append(low, Count(node_colors, "yellow"))
          /\ high' = Append(high, Count(node_colors, "red"))
          /\ components_num' = Append(components_num, weakly_connected_components(graph))
          /\ IF velocities = <<>>
             THEN /\ pc' = "gs_failed"
                  /\ err' = "ValueError"
                  /\ UNCHANGED <<i, statVars>>
             ELSE /\ mins' = Append(mins, Min(velocities))
                  /\ maxs' = Append(maxs, Max(velocities))
                  /\ means' = Append(means, Mean(velocities))
                  /\ medians' = Append(medians, Median(velocities))
                  /\ stds' = Append(stds, Std(velocities))
                  /\ i' = i + 1
                  /\ UNCHANGED <<pc, err>>
    /\ UNCHANGED <<result, inVars, year>>
    /\ UNCHANGED <<fwVars, mean_velocities, lhVars, rrVars, slVars>>

\* return pd.DataFrame(final_table)
GsReturn ==
    /\ pc = "gs_loop"
    /\ i >= EndYear
    /\ pc' = "gs_done"
    /\ result' = <<StatisticsTable>>
    /\ UNCHANGED <<err, inVars, loopVars>>
    /\ UNCHANGED <<fwVars, mean_velocities, colVars, statVars, lhVars, rrVars, slVars>>

NextGS == GsStep \/ GsReturn

SpecGS == InitGS /\ [][NextGS]_vars

-----------------------------------------------------------------------------
(* low_high_by_gauge_yearly                                                *)

\* the lists of MaxGauges gauges at most, and the lists that fill the grid
\* exactly and by one gauge too many
LhGaugeLists ==
    {GaugeList(n) : n \in (0..MaxGauges) \cup {GridCols \div 2, GridCols \div 2 + 1}}

\* np.zeros((144, 28)), indexed from 0
ZeroGrid == [r \in 0..(GridRows - 1) |-> [c \in 0..(GridCols - 1) |-> 0]]

\* " (low)" and " (high)"
LowSuffix == <<32, 40, 108, 111, 119, 41>>
HighSuffix == <<32, 40, 104, 105, 103, 104, 41>>

\* The loop `for gauge in gauges` from its k-th gauge on, writing row r of
\* the grid m.  A write outside the grid raises IndexError: the loop stops
\* and the grid is replaced by <<>>.
RECURSIVE WriteRow(_, _, _, _, _)
WriteRow(m, r, gs, gauges_dct, k) ==
    IF k > Len(gs) THEN m
    ELSE LET gauge_colors == gauges_dct[Str(gs[k])]
             k_yellow == Count(gauge_colors, "yellow")
             k_red == Count(gauge_colors, "red")
         IN IF 2 * k - 2 >= GridCols \/ 2 * k - 1 >= GridCols
            THEN <<>>
            ELSE WriteRow([m EXCEPT ![r][2 * k - 2] = k_yellow,
                                    ![r][2 * k - 1] = k_red],
                          r, gs, gauges_dct, k + 1)

\* columns: f"{gauge} (low)", f"{gauge} (high)" for every gauge
RECURSIVE ColumnLabels(_, _)
ColumnLabels(gs, k) ==
    IF k > Len(gs) THEN <<>>
    ELSE <<Str(gs[k]) \o LowSuffix, Str(gs[k]) \o HighSuffix>> \o ColumnLabels(gs, k + 1)

InitLH ==
    /\ pc = "lh_loop" /\ err = "" /\ result = <<>>
    /\ world \in Worlds /\ gauges \in LhGaugeLists
    /\ length = 0 /\ period = 0
    /\ i = FirstYear
    /\ year = 0 /\ start_date = <<>> /\ end_date = <<>>
    /\ mean_velocities = <<>>
    /\ years = <<>> /\ components_num = <<>> /\ low = <<>> /\ high = <<>>
    /\ final_matrix = ZeroGrid /\ columns = <<>>
    /\ NoFw /\ NoStats /\ NoRr /\ NoSl

\* one iteration of `for i in range(1876, 2020)`
LhStep ==
    /\ pc = "lh_loop"
    /\ i < EndYear
    /\ LET s == Str(i) \o Jan01
           e == Str(i) \o Dec31
           gauges_dct == get_node_colors_in_given_period(world, gauges, s, e)
           m == WriteRow(final_matrix, i - FirstYear, gauges, gauges_dct, 1)
       IN /\ start_date' = s
          /\ end_date' = e
          /\ years' = Append(years, i)
          /\ IF m = <<>>
             THEN /\ pc' = "lh_failed"
                  /\ err' = "IndexError"
                  /\ UNCHANGED <<i, final_matrix>>
             ELSE /\ final_matrix' = m
                  /\ i' = i + 1
                  /\ UNCHANGED <<pc, err>>
    /\ UNCHANGED <<result, inVars, year, components_num, low, high, columns>>
    /\ UNCHANGED <<fwVars, mean_velocities, statVars, rrVars, slVars>>

\* the column labels, and pd.DataFrame(final_matrix, index=years,
\* columns=columns), which raises ValueError unless the labels are as many
\* as the rows and the columns of the matrix
LhReturn ==
    /\ pc = "lh_loop"
    /\ i >= EndYear
    /\ columns' = ColumnLabels(gauges, 1)
    /\ IF Len(columns') = GridCols /\ Len(years) = GridRows
       THEN /\ pc' = "lh_done"
            /\ result' = <<[index |-> years, columns |-> columns', data |-> final_matrix]>>
            /\ err' = err
       ELSE /\ pc' = "lh_failed"
            /\ err' = "ValueError"
            /\ result' = result
    /\ UNCHANGED <<inVars, loopVars, colVars, final_matrix>>
    /\ UNCHANGED <<fwVars, mean_velocities, statVars, rrVars, slVars>>

NextLH == LhStep \/ LhReturn

SpecLH == InitLH /\ [][NextLH]_vars

-----------------------------------------------------------------------------
(* red_ratio                                                               *)

Periods ==
    (1..MaxPeriod) \cup {5, EndYear - FirstYear, EndYear - FirstYear + 1}

\* the last year of the period that starts in year y: stands for the
\* `year + period - 1` of the break test and of end_date
PeriodEndUnshifted(y, p) == y + p

PeriodEnd(y, p) == y + p - 1

\* a / b that gives 0 for b = 0
TrueDivOrZero(a, b) == IF b = 0 THEN Frac(0, 1) ELSE Frac(a, b)

\* a / b of two ints; <<>> stands for raising ZeroDivisionError
TrueDiv(a, b) == IF b = 0 THEN <<>> ELSE Frac(a, b)

InitRR ==
    /\ pc = "rr_loop" /\ err = "" /\ result = <<>>
    /\ world \in Worlds /\ gauges \in GaugeLists /\ period \in Periods
    /\ length = 0
    /\ year = FirstYear
    /\ i = 0 /\ start_date = <<>> /\ end_date = <<>>
    /\ mean_velocities = <<>>
    /\ NoFw /\ NoCols /\ NoStats /\ NoLh /\ NoRr /\ NoSl

\* one iteration of `for year in years`, years = np.arange(1876, 2020, period)
RrStep ==
    /\ pc = "rr_loop"
    /\ year < EndYear
    /\ ~ (PeriodEnd(year, period) > LastYear)
    /\ LET s == Str(year) \o Jan01
           e == Str(PeriodEnd(year, period)) \o Dec31
           gauges_dct == get_node_colors_in_given_period(world, gauges, s, e)
           all_colors == ConcatColors(gauges, gauges_dct, 1)
           reds == Count(all_colors, "red")
           ratio == TrueDiv(reds, Len(all_colors))
       IN /\ start_date' = s
          /\ end_date' = e
          /\ indices' = Append(indices, s \o <<Underscore>> \o e)
          /\ IF ratio = <<>>
             THEN /\ pc' = "rr_failed"
                  /\ err' = "ZeroDivisionError"
                  /\ UNCHANGED <<year, ratios>>
             ELSE /\ ratios' = Append(ratios, ratio)
                  /\ year' = year + period
                  /\ UNCHANGED <<pc, err>>
    /\ UNCHANGED <<result, inVars, i>>
    /\ UNCHANGED <<fwVars, mean_velocities, colVars, statVars, lhVars, slVars>>

\* the end of the loop (years exhausted, or break) and
\* return pd.DataFrame(final_table, index=indices)
RrReturn ==
    /\ pc = "rr_loop"
    /\ year >= EndYear \/ PeriodEnd(year, period) > LastYear
    /\ pc' = "rr_done"
    /\ result' = <<[index |-> indices, ratio |-> ratios]>>
    /\ UNCHANGED <<err, inVars, loopVars, rrVars>>
    /\ UNCHANGED <<fwVars, mean_velocities, colVars, statVars, lhVars, slVars>>

NextRR == RrStep \/ RrReturn

SpecRR == InitRR /\ [][NextRR]_vars

-----------------------------------------------------------------------------
(* get_slopes_by_vertex_pairs                                              *)

\* the dates of the model's vertex_pairs.json, ascending: in the first year,
\* in the second year and on the last day of the last year
SlopeDates ==
    <<IsoDate(FirstYear, 6, 1), IsoDate(FirstYear + 1, 3, 5), IsoDate(LastYear, 12, 31)>>

\* the slope of a [value, slope] record: a float, or a list of floats that
\* may be empty
Slopes ==
    { [list |-> FALSE, items |-> <<5>>],
      [list |-> TRUE, items |-> <<3, 7>>],
      [list |-> TRUE, items |-> <<>>] }

\* the date -> [value, slope] mappings of one vertex pair: the dates in
\* ascending order, each once
DateMaps ==
    { dm \in SeqsUpTo([date : {SlopeDates[k] : k \in 1..Len(SlopeDates)},
                       rec : {<<0, sl>> : sl \in Slopes}], MaxDates) :
        \A k \in 1..(Len(dm) - 1) : StrLess(dm[k].date, dm[k + 1].date) }

\* the key of the k-th vertex pair
PairKey(k) == Str(k) \o <<Underscore>> \o Str(k + 1)

\* the documents vertex_pairs.json can hold
Documents ==
    UNION { {[k \in 1..n |-> [key |-> PairKey(k), dates |-> dms[k]]] :
                dms \in [1..n -> DateMaps]} : n \in 0..MaxPairs }

\* the period lengths of the model: one year, five years (the last four
\* years of the dataset fill no period) and more years than the dataset has
SlPeriods == {1, 5, EndYear - FirstYear + 1}

\* vertex_pairs[vtx_pair].keys()
CurrentDates(vp) == [k \in 1..Len(vp.dates) |-> vp.dates[k].date]

\* all(j < start_date or j > end_date for j in current_dates)
AllOutside(current_dates, s, e) ==
    \A k \in 1..Len(current_dates) :
        StrLess(current_dates[k], s) \/ StrLess(e, current_dates[k])

\* ValidDates without the upper end of the period
ValidDatesFromStart(current_dates, s, e) ==
    SelectSeq(current_dates, LAMBDA x : StrLessEq(s, x))

\* [x for x in current_dates if start_date <= x <= end_date]
ValidDates(current_dates, s, e) ==
    SelectSeq(current_dates, LAMBDA x : StrLessEq(s, x) /\ StrLessEq(x, e))

\* vertex_pairs[vtx_pair][valid_date][1]
SlopeOf(vp, d) ==
    LET k == CHOOSE j \in 1..Len(vp.dates) : vp.dates[j].date = d
    IN vp.dates[k].rec[2]

\* the flattened slopes of the valid dates from the k-th one on
RECURSIVE FlattenedSlopes(_, _, _)
FlattenedSlopes(vp, valid_dates, k) ==
    IF k > Len(valid_dates) THEN <<>>
    ELSE SlopeOf(vp, valid_dates[k]).items \o FlattenedSlopes(vp, valid_dates, k + 1)

\* pd.DataFrame(final_table, index=indices)
SlopeTable ==
    [index |-> indices, min |-> mins, max |-> maxs, mean |-> means,
     median |-> medians, std |-> stds]

InitSL ==
    /\ pc = "sl_open" /\ err = "" /\ result = <<>>
    /\ world \in {[file |-> "missing", doc |-> <<>>], [file |-> "malformed", doc |-> <<>>]}
                 \cup {[file |-> "ok", doc |-> d] : d \in Documents}
    /\ period \in SlPeriods
    /\ gauges = <<>> /\ length = 0
    /\ NoLoop /\ NoFw /\ mean_velocities = <<>>
    /\ NoCols /\ NoStats /\ NoLh /\ NoRr
    /\ vertex_pairs = <<>> /\ pair = 0 /\ dfs = <<>> /\ sheets = <<>>
    /\ files = [f |-> "unopened", writer |-> "unopened"]

\* f = open(.../vertex_pairs.json): FileNotFoundError when there is none
SlOpen ==
    /\ pc = "sl_open"
    /\ IF world.file = "missing"
       THEN /\ pc' = "sl_failed"
            /\ err' = "FileNotFoundError"
            /\ files' = files
       ELSE /\ pc' = "sl_load"
            /\ err' = err
            /\ files' = [files EXCEPT !.f = "open"]
    /\ UNCHANGED <<result, inVars, loopVars, vertex_pairs, pair, dfs, sheets>>
    /\ UNCHANGED <<fwVars, mean_velocities, colVars, statVars, lhVars, rrVars>>

\* vertex_pairs = json.load(f): JSONDecodeError for a malformed document
SlLoad ==
    /\ pc = "sl_load"
    /\ IF world.file = "malformed"
       THEN /\ pc' = "sl_failed"
            /\ err' = "JSONDecodeError"
            /\ UNCHANGED <<vertex_pairs, pair>>
       ELSE /\ pc' = "sl_pair"
            /\ err' = err
            /\ vertex_pairs' = world.doc
            /\ pair' = 1
    /\ dfs' = <<>>
    /\ UNCHANGED <<result, inVars, loopVars, files, sheets>>
    /\ UNCHANGED <<fwVars, mean_velocities, colVars, statVars, lhVars, rrVars>>

\* the head of one iteration of `for vtx_pair in list(vertex_pairs.keys())`
SlPairStart ==
    /\ pc = "sl_pair"
    /\ pair <= Len(vertex_pairs)
    /\ mins' = <<>> /\ maxs' = <<>> /\ means' = <<>> /\ medians' = <<>> /\ stds' = <<>>
    /\ indices' = <<>>
    /\ year' = FirstYear
    /\ pc' = "sl_year"
    /\ UNCHANGED <<err, result, inVars, i, start_date, end_date, ratios, slVars>>
    /\ UNCHANGED <<fwVars, mean_velocities, colVars, lhVars>>

\* one iteration of `for year in years`, years = np.arange(1876, 2020,
\* period); np.min of an empty pool raises ValueError
SlYearStep ==
    /\ pc = "sl_year"
    /\ year < EndYear
    /\ ~ (PeriodEnd(year, period) > LastYear)
    /\ LET s == Str(year) \o Jan01
           e == Str(PeriodEnd(year, period)) \o Dec31
           vp == vertex_pairs[pair]
           current_dates == CurrentDates(vp)
           valid_dates == ValidDates(current_dates, s, e)
           flattened_slopes == FlattenedSlopes(vp, valid_dates, 1)
       IN /\ start_date' = s
          /\ end_date' = e
          /\ IF AllOutside(current_dates, s, e)
             THEN /\ year' = year + period
                  /\ UNCHANGED <<pc, err, indices, statVars>>
             ELSE /\ indices' = Append(indices, s \o <<Underscore>> \o e)
                  /\ IF flattened_slopes = <<>>
                     THEN /\ pc' = "sl_failed"
                          /\ err' = "ValueError"
                          /\ UNCHANGED <<year, statVars>>
                     ELSE /\ mins' = Append(mins, Min(flattened_slopes))
                          /\ maxs' = Append(maxs, Max(flattened_slopes))
                          /\ means' = Append(means, Mean(flattened_slopes))
                          /\ medians' = Append(medians, Median(flattened_slopes))
                          /\ stds' = Append(stds, Std(flattened_slopes))
                          /\ year' = year + period
                          /\ UNCHANGED <<pc, err>>
    /\ UNCHANGED <<result, inVars, i, ratios, slVars>>
    /\ UNCHANGED <<fwVars, mean_velocities, colVars, lhVars>>

\* the end of the loop over the years (years exhausted, or break), the
\* table of the vertex pair and dfs.append(df)
SlPairEnd ==
    /\ pc = "sl_year"
    /\ year >= EndYear \/ PeriodEnd(year, period) > LastYear
    /\ dfs' = Append(dfs, SlopeTable)
    /\ pair' = pair + 1
    /\ pc' = "sl_pair"
    /\ UNCHANGED <<err, result, inVars, loopVars, vertex_pairs, files, sheets>>
    /\ UNCHANGED <<fwVars, mean_velocities, colVars, statVars, lhVars, rrVars>>

\* with pd.ExcelWriter(...) as writer
SlWriterOpen ==
    /\ pc = "sl_pair"
    /\ pair > Len(vertex_pairs)
    /\ files' = [files EXCEPT !.writer = "open"]
    /\ idx' = 1
    /\ pc' = "sl_write"
    /\ UNCHANGED <<err, result, inVars, loopVars, vertex_pairs, pair, dfs, sheets>>
    /\ UNCHANGED <<branches, cleaned_branches, mean_velocities, colVars, statVars,
                   lhVars, rrVars>>

\* df.to_excel(writer, sheet_name=...) of the next table
SlWriteSheet ==
    /\ pc = "sl_write"
    /\ idx <= Len(dfs)
    /\ sheets' = Append(sheets, [sheet_name |-> vertex_pairs[idx].key, df |-> dfs[idx]])
    /\ idx' = idx + 1
    /\ UNCHANGED <<ctlVars, inVars, loopVars, vertex_pairs, pair, dfs, files>>
    /\ UNCHANGED <<branches, cleaned_branches, mean_velocities, colVars, statVars,
                   lhVars, rrVars>>

\* a write error inside the with block or in the save at its exit (an
\* unwritable file, a workbook without any sheet): the block's exit closes
\* the writer and the error goes on to the caller
SlWriteError ==
    /\ pc = "sl_write"
    /\ files' = [files EXCEPT !.writer = "closed"]
    /\ pc' = "sl_failed"
    /\ err' = "OSError"
    /\ UNCHANGED <<result, inVars, loopVars, vertex_pairs, pair, dfs, sheets>>
    /\ UNCHANGED <<fwVars, mean_velocities, colVars, statVars, lhVars, rrVars>>

\* the end of the with block and of the operation
SlWriterClose ==
    /\ pc = "sl_write"
    /\ idx > Len(dfs)
    /\ files' = [files EXCEPT !.writer = "closed"]
    /\ pc' = "sl_done"
    /\ UNCHANGED <<err, result, inVars, loopVars, vertex_pairs, pair, dfs, sheets>>
    /\ UNCHANGED <<fwVars, mean_velocities, colVars, statVars, lhVars, rrVars>>

\* The code never closes f.  After the operation has ended the interpreter
\* may finalize the unreferenced file object at a time of its choosing, or
\* never.
SlFinalize ==
    /\ pc \in {"sl_done", "sl_failed"}
    /\ files.f = "open"
    /\ files' = [files EXCEPT !.f = "closed"]
    /\ UNCHANGED <<ctlVars, inVars, loopVars, vertex_pairs, pair, dfs, sheets>>
    /\ UNCHANGED <<fwVars, mean_velocities, colVars, statVars, lhVars, rrVars>>

NextSL ==
    \/ SlOpen \/ SlLoad \/ SlPairStart \/ SlYearStep \/ SlPairEnd
    \/ SlWriterOpen \/ SlWriteSheet \/ SlWriteError \/ SlWriterClose \/ SlFinalize

SpecSL == InitSL /\ [][NextSL]_vars

-----------------------------------------------------------------------------
(* get_flood_waves_yearly                                                  *)

\* The node dates the graph of target year y can hold: a day of the previous
\* December, of the target year, of the next January, and a date-like string
\* of the target year with a suffix in which the previous year's digits
\* occur.
NodeDates(y) ==
    { IsoDate(y - 1, 12, 15), IsoDate(y, 6, 15), IsoDate(y + 1, 1, 10),
      IsoDate(y, 1, 1) \o <<Dash>> \o Str(y - 1) }

\* a node is (gauge, date); node[1] of the code is the date
Nodes(y) == {<<"g", d>> : d \in NodeDates(y)}

\* A branch is a path of the directed graph, whose edges never go back in
\* time: its node dates do not decrease along it.
Branches(y) ==
    { b \in SeqsUpTo(Nodes(y), MaxBranchLen) :
        \A k \in 1..(Len(b) - 1) : StrLessEq(b[k][2], b[k + 1][2]) }

\* GraphAnalysis.get_branching: any list of branches over the nodes
BranchLists(y) == SeqsUpTo(Branches(y), MaxBranches)

\* node_dates = [node[1] for node in branch]
NodeDatesOf(branch) == [k \in 1..Len(branch) |-> branch[k][2]]

\* KeepBranch with `all` of the next year's test mistaken for `any`
KeepBranchAnyNext(y, branch) ==
    LET node_dates == NodeDatesOf(branch) IN
    /\ ~ \E k \in 1..Len(node_dates) : Contains(Str(y - 1), node_dates[k])
    /\ ~ \E k \in 1..Len(node_dates) : Contains(Str(y + 1), node_dates[k])

\* KeepBranch comparing the year field of the date instead of searching it
KeepBranchYearField(y, branch) ==
    LET node_dates == NodeDatesOf(branch) IN
    /\ ~ \E k \in 1..Len(node_dates) : SubSeq(node_dates[k], 1, 4) = Str(y - 1)
    /\ ~ \A k \in 1..Len(node_dates) : SubSeq(node_dates[k], 1, 4) = Str(y + 1)

\* KeepBranch without the test of the next year
KeepBranchNoNext(y, branch) ==
    LET node_dates == NodeDatesOf(branch) IN
    ~ \E k \in 1..Len(node_dates) : Contains(Str(y - 1), node_dates[k])

\* the condition of the if statement that keeps a branch
KeepBranch(y, branch) ==
    LET node_dates == NodeDatesOf(branch) IN
    /\ ~ \E k \in 1..Len(node_dates) : Contains(Str(y - 1), node_dates[k])
    /\ ~ \A k \in 1..Len(node_dates) : Contains(Str(y + 1), node_dates[k])

\* the target years of the model: both ends of the dataset, their
\* neighbours, and the turns of the century
TargetYears == {FirstYear, FirstYear + 1, 1900, 2000, LastYear - 1, LastYear}

InitFW ==
    /\ pc = "fw_start" /\ err = "" /\ result = <<>>
    /\ year \in TargetYears
    /\ i = 0 /\ start_date = <<>> /\ end_date = <<>>
    /\ NoInputs /\ NoFw /\ mean_velocities = <<>>
    /\ NoCols /\ NoStats /\ NoLh /\ NoRr /\ NoSl

\* the window of the target year
FwWindow ==
    /\ pc = "fw_start"
    /\ IF year = FirstYear
       THEN /\ start_date' = Str(year) \o Jan01
            /\ end_date' = Str(year + 1) \o Feb01
       ELSE IF year = LastYear
       THEN /\ start_date' = Str(year - 1) \o Nov30
            /\ end_date' = Str(year) \o Dec31
       ELSE /\ start_date' = Str(year - 1) \o Nov30
            /\ end_date' = Str(year + 1) \o Feb01
    /\ pc' = "fw_branching"
    /\ UNCHANGED <<err, result, i, year>>
    /\ UNCHANGED <<inVars, fwVars, mean_velocities, colVars, statVars, lhVars, rrVars, slVars>>

\* create_directed_graph and get_branching
FwBranching ==
    /\ pc = "fw_branching"
    /\ \E bs \in BranchLists(year) : branches' = bs
    /\ cleaned_branches' = <<>>
    /\ idx' = 1
    /\ pc' = "fw_loop"
    /\ UNCHANGED <<err, result, loopVars>>
    /\ UNCHANGED <<inVars, mean_velocities, colVars, statVars, lhVars, rrVars, slVars>>

\* one iteration of `for branch in branches`
FwFilter ==
    /\ pc = "fw_loop"
    /\ idx <= Len(branches)
    /\ cleaned_branches' =
          IF KeepBranch(year, branches[idx])
          THEN Append(cleaned_branches, branches[idx])
          ELSE cleaned_branches
    /\ idx' = idx + 1
    /\ UNCHANGED <<ctlVars, loopVars, branches>>
    /\ UNCHANGED <<inVars, mean_velocities, colVars, statVars, lhVars, rrVars, slVars>>

\* return cleaned_branches
FwReturn ==
    /\ pc = "fw_loop"
    /\ idx > Len(branches)
    /\ pc' = "fw_done"
    /\ result' = <<cleaned_branches>>
    /\ UNCHANGED <<err, loopVars, fwVars>>
    /\ UNCHANGED <<inVars, mean_velocities, colVars, statVars, lhVars, rrVars, slVars>>

NextFW == FwWindow \/ FwBranching \/ FwFilter \/ FwReturn

SpecFW == InitFW /\ [][NextFW]_vars

-----------------------------------------------------------------------------
(* Properties of get_flood_waves_yearly                                    *)

IsDigit(c) == Zero <= c /\ c <= Zero + 9

\* d has the shape YYYY-MM-DD
IsIsoDate(d) ==
    /\ Len(d) = 10
    /\ d[5] = Dash /\ d[8] = Dash
    /\ \A k \in {1, 2, 3, 4, 6, 7, 9, 10} : IsDigit(d[k])

\* the year an ISO date lies in
YearOf(d) ==
    1000 * (d[1] - Zero) + 100 * (d[2] - Zero) + 10 * (d[3] - Zero) + (d[4] - Zero)

DateInYear(d, y) == IsIsoDate(d) /\ YearOf(d) = y

HasDateInYear(branch, y) == \E k \in 1..Len(branch) : DateInYear(branch[k][2], y)

AnyDateContains(branch, y) == \E k \in 1..Len(branch) : Contains(Str(y), branch[k][2])

AllDatesContain(branch, y) == \A k \in 1..Len(branch) : Contains(Str(y), branch[k][2])

Returned(branch) == \E k \in 1..Len(cleaned_branches) : cleaned_branches[k] = branch

RECURSIVE Filter(_, _)
\* the branches of bs, in order, that are not filtered out for year y
Filter(bs, y) ==
    IF bs = <<>> THEN <<>>
    ELSE IF AllDatesContain(Head(bs), y + 1) \/ AnyDateContains(Head(bs), y - 1)
         THEN Filter(Tail(bs), y)
         ELSE <<Head(bs)>> \o Filter(Tail(bs), y)

\* C1 as stated: every branch with a node date in the target year is in the
\* result, whatever its other node dates are.
C1_RetainedWhateverOthers ==
    pc = "fw_done" =>
        \A k \in 1..Len(branches) :
            HasDateInYear(branches[k], year) => Returned(branches[k])

\* C1 amended: a branch with a node date in the target year is in the result
\* exactly when none of its node dates contains the label of the previous
\* year.
C1_RetainedUnlessPreviousYear ==
    pc = "fw_done" =>
        \A k \in 1..Len(branches) :
            HasDateInYear(branches[k], year) =>
                (Returned(branches[k]) <=> ~ AnyDateContains(branches[k], year - 1))

\* a returned branch that spans the target year and the next one, and a
\* dropped branch that spans the previous year and the target year
C1_Witness ==
    /\ pc = "fw_done"
    /\ \E k \in 1..Len(branches) :
          /\ HasDateInYear(branches[k], year)
          /\ HasDateInYear(branches[k], year + 1)
          /\ Returned(branches[k])
    /\ \E k \in 1..Len(branches) :
          /\ HasDateInYear(branches[k], year)
          /\ HasDateInYear(branches[k], year - 1)
          /\ ~ Returned(branches[k])

\* C2: the result is the list of branches, in the order of the
\* decomposition, without those whose every node date contains the label of
\* the next year or one of whose node dates contains the label of the
\* previous year (substring containment).
C2_FilterExact ==
    pc = "fw_done" =>
        /\ cleaned_branches = Filter(branches, year)
        /\ result = <<cleaned_branches>>

\* a branch dropped only because the previous year's digits occur outside
\* the year field of its date, followed by a kept branch of two nodes
C2_Witness ==
    /\ pc = "fw_done"
    /\ Len(branches) = 2
    /\ Len(branches[1]) = 1
    /\ SubSeq(branches[1][1][2], 1, 4) = Str(year)
    /\ AnyDateContains(branches[1], year - 1)
    /\ Len(branches[2]) = 2
    /\ cleaned_branches = <<branches[2]>>

\* the window the code must have built for year y
WindowStart(y) == IF y = FirstYear THEN IsoDate(y, 1, 1) ELSE IsoDate(y - 1, 11, 30)
WindowEnd(y) == IF y = LastYear THEN IsoDate(y, 12, 31) ELSE IsoDate(y + 1, 2, 1)

InWindow(branch) ==
    \A k \in 1..Len(branch) :
        /\ IsIsoDate(branch[k][2])
        /\ StrLessEq(start_date, branch[k][2])
        /\ StrLessEq(branch[k][2], end_date)

\* the earliest node date of a non-empty branch
EarliestDate(branch) ==
    CHOOSE d \in {branch[k][2] : k \in 1..Len(branch)} :
        \A k \in 1..Len(branch) : StrLessEq(d, branch[k][2])

\* C3: the window is the one of the target year, and every returned
\* non-empty branch whose node dates are ISO dates inside the window has its
\* earliest node date in the target year.
C3_StartsInTargetYear ==
    pc = "fw_done" =>
        /\ start_date = WindowStart(year)
        /\ end_date = WindowEnd(year)
        /\ \A k \in 1..Len(cleaned_branches) :
              (cleaned_branches[k] # <<>> /\ InWindow(cleaned_branches[k])) =>
                  DateInYear(EarliestDate(cleaned_branches[k]), year)

\* a returned branch inside the window that runs into the next year, next to
\* a dropped branch inside the window that lies in the next year
C3_Witness ==
    /\ pc = "fw_done"
    /\ \E k \in 1..Len(cleaned_branches) :
          /\ Len(cleaned_branches[k]) = 2
          /\ InWindow(cleaned_branches[k])
          /\ HasDateInYear(cleaned_branches[k], year + 1)
    /\ \E k \in 1..Len(branches) :
          /\ branches[k] # <<>>
          /\ InWindow(branches[k])
          /\ ~ HasDateInYear(branches[k], year)
          /\ ~ Returned(branches[k])

-----------------------------------------------------------------------------
(* Properties of yearly_mean_moving_average                                *)

\* m is the mean of vs (nan when vs is empty)
IsMeanOf(m, vs) ==
    IF vs = <<>> THEN m = NaN
    ELSE m[2] > 0 /\ m[1] * Len(vs) = m[2] * Sum(vs)

\* C5: the moving average has 2020 - (1876 + L) elements, and the k-th one
\* (k from 0) is the mean of the velocities of the years 1876+k .. 1876+L+k;
\* an empty velocity set gives nan and the loop goes on.
C5_MovingAverage ==
    pc = "mma_done" =>
        /\ result = <<mean_velocities>>
        /\ Len(mean_velocities) = 2020 - (1876 + length)
        /\ \A k \in 0..(Len(mean_velocities) - 1) :
              IsMeanOf(mean_velocities[k + 1],
                       PoolVelocities(world, 1876 + k, 1876 + length + k))

\* a finished run with a window of more than one year, in which one window
\* had no velocity and a later one had some
C5_Witness ==
    /\ pc = "mma_done"
    /\ length >= 1
    /\ \E j, k \in 1..Len(mean_velocities) :
          /\ j < k
          /\ mean_velocities[j] = NaN
          /\ mean_velocities[k] # NaN
          /\ mean_velocities[k][2] > 1

-----------------------------------------------------------------------------
(* Properties of get_statistics                                            *)

Headers ==
    {"Datum (ev)", "Arhullam (db)", "Kisviz (db)", "Nagyviz (db)",
     "Min. sebesseg (km/h)", "Max. sebesseg (km/h)", "Atlagsebesseg (km/h)",
     "Median sebesseg (km/h)", "Sebessegek szorasa"}

\* the number of node color labels of the gauges gs in year y
TotalLabels(w, gs, y) == Sum([k \in 1..Len(gs) |-> Len(YearColors(w, gs[k], y))])

\* C10: the returned table has 144 rows, the years 1876..2019 in ascending
\* order, its nine columns have that length, and in every row low + high is
\* at most the number of node color labels of the year.
C10_StatisticsTable ==
    pc = "gs_done" =>
        LET table == result[1] IN
        /\ DOMAIN table = Headers
        /\ \A h \in Headers : Len(table[h]) = 144
        /\ \A r \in 1..144 :
              /\ table["Datum (ev)"][r] = 1876 + r - 1
              /\ table["Kisviz (db)"][r] + table["Nagyviz (db)"][r]
                    <= TotalLabels(world, gauges, 1876 + r - 1)

\* a returned table with a row in which low + high is positive and below
\* the number of labels
C10_Witness ==
    /\ pc = "gs_done"
    /\ Len(gauges) = 2
    /\ \E r \in 1..144 :
          LET table == result[1] IN
          /\ table["Kisviz (db)"][r] > 0
          /\ table["Nagyviz (db)"][r] > 0
          /\ table["Kisviz (db)"][r] + table["Nagyviz (db)"][r]
                < TotalLabels(world, gauges, 1876 + r - 1)

-----------------------------------------------------------------------------
(* Properties of low_high_by_gauge_yearly                                  *)

\* C4: for any list of n gauges the operation returns a grid of 144 rows
\* (the years 1876..2019) and 2n columns, with the yellow count of gauge j
\* of year y in cell (y - 1876, 2j) and its red count in cell
\* (y - 1876, 2j + 1), j from 0.
C4_GridForAnyGauges ==
    pc \in {"lh_done", "lh_failed"} =>
        /\ pc = "lh_done"
        /\ LET grid == result[1]
               n == Len(gauges)
           IN /\ grid.index = [r \in 1..144 |-> 1876 + r - 1]
              /\ Len(grid.columns) = 2 * n
              /\ DOMAIN grid.data = 0..143
              /\ \A r \in 0..143 :
                    /\ DOMAIN grid.data[r] = 0..(2 * n - 1)
                    /\ \A j \in 0..(n - 1) :
                          LET colors == YearColors(world, gauges[j + 1], 1876 + r)
                          IN /\ grid.data[r][2 * j] = Count(colors, "yellow")
                             /\ grid.data[r][2 * j + 1] = Count(colors, "red")

-----------------------------------------------------------------------------
(* Properties of red_ratio                                                 *)

\* the label of the k-th period of length p (k from 0)
PeriodLabel(k, p) ==
    IsoDate(1876 + k * p, 1, 1) \o <<Underscore>> \o IsoDate(1876 + k * p + p - 1, 12, 31)

\* the colors of all gauges gs over the years y1..y2
AllGaugeColors(w, gs, y1, y2) ==
    [k \in 1..Len(gs) |-> PoolColors(w, gs[k], y1, y2)]

PeriodTotal(w, gs, y1, y2) ==
    Sum([k \in 1..Len(gs) |-> Len(AllGaugeColors(w, gs, y1, y2)[k])])

PeriodReds(w, gs, y1, y2) ==
    Sum([k \in 1..Len(gs) |-> Count(AllGaugeColors(w, gs, y1, y2)[k], "red")])

\* C7: the returned table has one row for each k with 1876 + k*P + P - 1 <=
\* 2019, in ascending order, labelled by the period, and the ratio of the
\* row is the number of red labels by the number of labels of the period.
C7_RedRatioRows ==
    pc = "rr_done" =>
        LET table == result[1]
            n == 144 \div period
        IN /\ Len(table.index) = n
           /\ Len(table.ratio) = n
           /\ \A k \in 0..(n - 1) :
                 LET y1 == 1876 + k * period
                     y2 == 1876 + k * period + period - 1
                     total == PeriodTotal(world, gauges, y1, y2)
                 IN /\ y2 <= 2019
                    /\ table.index[k + 1] = PeriodLabel(k, period)
                    /\ total > 0
                    /\ table.ratio[k + 1][2] > 0
                    /\ table.ratio[k + 1][1] * total
                          = table.ratio[k + 1][2] * PeriodReds(world, gauges, y1, y2)
           /\ 1876 + n * period + period - 1 > 2019

\* a returned table of two-year periods whose first ratio is 3 red labels
\* of 10
C7_Witness ==
    /\ pc = "rr_done"
    /\ period = 2
    /\ PeriodTotal(world, gauges, 1876, 1877) = 10
    /\ PeriodReds(world, gauges, 1876, 1877) = 3
    /\ result[1].ratio[1] = <<3, 10>>
    /\ Len(result[1].index) = 72

\* C8: the operation fails exactly at the first period without any node,
\* with ZeroDivisionError, having appended no ratio for that period, and
\* returns no table then; a run that returns met no such period.
C8_ZeroDivisionAborts ==
    /\ pc = "rr_failed" =>
          /\ err = "ZeroDivisionError"
          /\ result = <<>>
          /\ Len(ratios) = Len(indices) - 1
          /\ year = 1876 + Len(ratios) * period
          /\ PeriodTotal(world, gauges, year, year + period - 1) = 0
    /\ pc \in {"rr_loop", "rr_done"} =>
          /\ err = ""
          /\ Len(ratios) = Len(indices)
          /\ \A k \in 0..(Len(ratios) - 1) :
                PeriodTotal(world, gauges, 1876 + k * period,
                            1876 + k * period + period - 1) > 0
    /\ pc = "rr_loop" => result = <<>>

\* a failure at a later period, after ratios of earlier periods were
\* computed
C8_Witness ==
    /\ pc = "rr_failed"
    /\ Len(ratios) >= 1
    /\ Len(gauges) >= 1
    /\ result = <<>>

-----------------------------------------------------------------------------
(* Properties of get_slopes_by_vertex_pairs                                *)

\* the date of the k-th record of vertex pair vp lies in the years y1..y2
RecordInYears(vp, k, y1, y2) ==
    y1 <= YearOf(vp.dates[k].date) /\ YearOf(vp.dates[k].date) <= y2

\* the slopes of the records of vp from the k-th one on that lie in y1..y2
RECURSIVE PeriodPool(_, _, _, _)
PeriodPool(vp, k, y1, y2) ==
    IF k > Len(vp.dates) THEN <<>>
    ELSE (IF RecordInYears(vp, k, y1, y2) THEN vp.dates[k].rec[2].items ELSE <<>>)
         \o PeriodPool(vp, k + 1, y1, y2)

\* the periods (numbered from 0) of length p in which vp has a date
PeriodsWithDates(vp, p) ==
    { k \in 0..((144 \div p) - 1) :
        \E j \in 1..Len(vp.dates) :
            RecordInYears(vp, j, 1876 + k * p, 1876 + k * p + p - 1) }

\* df is the table of vertex pair vp for periods of length p
IsSlopeTableOf(df, vp, p) ==
    LET K == PeriodsWithDates(vp, p) IN
    /\ Len(df.index) = Cardinality(K)
    /\ Len(df.min) = Len(df.index) /\ Len(df.max) = Len(df.index)
    /\ Len(df.mean) = Len(df.index) /\ Len(df.median) = Len(df.index)
    /\ Len(df.std) = Len(df.index)
    /\ \A j \in 1..Len(df.index) :
          \E k \in K :
              LET pool == PeriodPool(vp, 1, 1876 + k * p, 1876 + k * p + p - 1) IN
              /\ Cardinality({k2 \in K : k2 < k}) = j - 1
              /\ df.index[j] = PeriodLabel(k, p)
              /\ df.min[j] = Min(pool)
              /\ df.max[j] = Max(pool)
              /\ df.mean[j] = Mean(pool)
              /\ df.median[j] = Median(pool)
              /\ df.std[j] = Std(pool)

\* the vertex pair with the single date 1876-06-01 and the slope 5.0
SingleDatePair(vp) ==
    vp.dates = <<[date |-> IsoDate(1876, 6, 1), rec |-> <<0, [list |-> FALSE, items |-> <<5>>]>>]>>

\* C6: when the operation completes, the sheet of every vertex pair has one
\* row for each period with a date of the pair and none for the others, in
\* ascending order, labelled start_end, all columns as long as the index,
\* and the statistics of a row are those of the pooled slopes of the dates
\* of its period; the single date 1876-06-01 with slope 5 and period 1 gives
\* one row with min = max = mean = median = 5 and std = 0.
C6_SlopeTables ==
    pc = "sl_done" =>
        /\ Len(sheets) = Len(vertex_pairs)
        /\ \A n \in 1..Len(vertex_pairs) :
              /\ sheets[n].sheet_name = vertex_pairs[n].key
              /\ IsSlopeTableOf(sheets[n].df, vertex_pairs[n], period)
              /\ (period = 1 /\ SingleDatePair(vertex_pairs[n])) =>
                    sheets[n].df =
                        [index |-> <<IsoDate(1876, 1, 1) \o <<Underscore>> \o IsoDate(1876, 12, 31)>>,
                         min |-> <<5>>, max |-> <<5>>, mean |-> <<<<5, 1>>>>,
                         median |-> <<<<5, 1>>>>, std |-> <<[sqrt |-> <<0, 1>>]>>]

\* a completed run with periods of five years for a pair with a date in
\* 1876 and one in 1877: one row, over the pool of the slopes of both dates
C6_Witness ==
    /\ pc = "sl_done"
    /\ period = 5
    /\ Len(vertex_pairs) = 1
    /\ Len(vertex_pairs[1].dates) = 2
    /\ YearOf(vertex_pairs[1].dates[1].date) = 1876
    /\ YearOf(vertex_pairs[1].dates[2].date) = 1877
    /\ Len(sheets[1].df.index) = 1
    /\ sheets[1].df.min = <<3>>
    /\ sheets[1].df.max = <<7>>
    /\ sheets[1].df.mean = <<<<5, 1>>>>
    /\ sheets[1].df.std = <<[sqrt |-> <<8, 3>>]>>

\* C9: whenever the operation has ended, by return or by a failure, every
\* file handle it opened has been closed.
C9_HandlesReleased ==
    pc \in {"sl_done", "sl_failed"} =>
        /\ files.f # "open"
        /\ files.writer # "open"

====
